---- MODULE Spec2Model ----
(***************************************************************************)
(* Model of link_prediction/optimization/pairwise_ranking_optimizer.py:    *)
(* PairwiseRankingOptimizer (train, epoch, extract_batch, step_on_batch)   *)
(* and KelpiePairwiseRankingOptimizer (epoch override).                    *)
(*                                                                         *)
(* One behaviour is one call made by a client on a constructed optimizer:  *)
(* train(...), epoch(...) or step_on_batch(...).  The collaborators (the   *)
(* Model, the torch optimizer, the Evaluator, torch.save) are stubs that   *)
(* record the calls they receive in `trace`, in call order.                *)
(***************************************************************************)
EXTENDS Integers, Sequences, FiniteSets, TLC

\* ---------------------------------------------------------------- bounds
MaxRows == 4      \* longest array handed to epoch()
MaxBatch == 3     \* largest BATCH_SIZE hyperparameter
MaxEpochs == 3    \* largest EPOCHS hyperparameter
MaxEvery == 2     \* largest evaluate_every argument
MaxRatio == 2     \* largest NEGATIVE_SAMPLES_RATIO hyperparameter
MaxNegBatch == 1  \* BATCH_SIZE goes down to -MaxNegBatch
MaxIterations == 5  \* iterations explored of a loop that cannot end

\* ------------------------------------------------------------ collaborators
NumRelations == 1

\* the rows a caller may pass: <<head, relation, tail>>
AllSamples == << <<1, 1, 2>>, <<2, 1, 3>>, <<3, 1, 1>>, <<1, 1, 3>>, <<2, 1, 1>> >>

\* Dataset.invert_samples: one inverted row per row, in the same order
invert_samples(samples) ==
    [i \in 1..Len(samples) |->
        <<samples[i][3], samples[i][2] + NumRelations, samples[i][1]>>]

\* CorruptionEngine.corrupt_samples: the batch itself and, for each of its
\* rows, ratio rows with the tail replaced by another entity
corrupt_samples(batch, ratio) ==
    [positive |-> batch,
     negative |-> [i \in 1..(IF ratio > 0 THEN ratio * Len(batch) ELSE 0) |->
                     LET row == batch[((i - 1) % Len(batch)) + 1]
                     IN  <<row[1], row[2], 0>>]]

\* ------------------------------------------------------------ numpy helpers
Min(a, b) == IF a < b THEN a ELSE b
Max(a, b) == IF a > b THEN a ELSE b

\* a Python slice bound: negative counts from the end, all are clamped
PyIndex(i, n) == IF i < 0 THEN Max(i + n, 0) ELSE Min(i, n)

\* s[from:to], 0-based, `to` exclusive
Slice(s, from, to) ==
    LET lo == PyIndex(from, Len(s))
        hi == PyIndex(to, Len(s))
    IN  IF lo >= hi THEN << >> ELSE SubSeq(s, lo + 1, hi)

\* mutant: the originals are left out of the stacked array
vstack_inverted_only(a, b) == b

\* np.vstack((a, b))
vstack(a, b) == a \o b

\* np.random.shuffle: every reordering of the rows is a possible outcome
Shuffles(s) ==
    {[i \in 1..Len(s) |-> s[p[i]]] : p \in Permutations(1..Len(s))}

\* ------------------------------------------------------------------- state
VARIABLES
    call,              \* the method the client calls
    kelpie,            \* TRUE: the optimizer is a KelpiePairwiseRankingOptimizer
    batch_size,        \* self.batch_size
    epochs,            \* self.epochs
    train_samples,     \* train()'s argument, the caller's array
    save_path,         \* TRUE iff save_path is not None
    evaluate_every,    \* train()'s argument
    valid_samples,     \* TRUE iff valid_samples is not None
    training_samples,  \* the array epoch() works on
    e,                 \* train()'s loop variable
    batch_start,       \* epoch()'s loop variable
    batches,           \* the original_batch slices of the current epoch
    negative_batches,  \* the negative batches of the current epoch
    hyperparameters,   \* the dict given to __init__
    assigned,          \* the attributes of self that have been assigned
    negative_samples_ratio,  \* self.negative_samples_ratio
    training,          \* Model.training: TRUE train mode, FALSE eval mode
    params,            \* number of optimizer updates applied to the parameters
    embeddings,        \* params value last copied into the shared table
    checkpoint,        \* params value in the file at save_path, -1: no file
    pc,                \* position of the call
    trace,             \* the collaborator calls so far, <<operation, epoch>>
    caller_samples,    \* the rows of the array object the caller passed
    aliased            \* TRUE: training_samples is that same array object

vars == <<call, kelpie, batch_size, epochs, train_samples, save_path,
          evaluate_every, valid_samples, training_samples, e, batch_start,
          batches, training, params, embeddings, checkpoint, pc, trace,
          negative_batches, hyperparameters, assigned, negative_samples_ratio,
          caller_samples, aliased>>

config == <<call, kelpie, batch_size, epochs, train_samples, save_path,
            evaluate_every, valid_samples, hyperparameters, assigned,
            negative_samples_ratio>>

Arrays(n) == {SubSeq(AllSamples, 1, m) : m \in 1..n}

\* the keys __init__ reads, in reading order, and the attributes they set
Keys == <<"BATCH_SIZE", "LEARNING_RATE", "EPOCHS", "MARGIN",
          "NEGATIVE_SAMPLES_RATIO", "REGULARIZER_WEIGHT">>

Attributes == <<"batch_size", "learning_rate", "epochs", "margin",
                "negative_samples_ratio", "regularizer_weight">>

Collaborators == {"corruption_engine", "loss", "optimizer", "regularizer"}

KeySet == {Keys[i] : i \in DOMAIN Keys}

\* a complete hyperparameter dict
Hyperparameters(b, E, r) ==
    [k \in KeySet |->
        IF k = "BATCH_SIZE" THEN b
        ELSE IF k = "EPOCHS" THEN E
        ELSE IF k = "NEGATIVE_SAMPLES_RATIO" THEN r
        ELSE 1]

Restrict(f, K) == [k \in K |-> f[k]]

\* an optimizer that is being constructed: nothing is assigned yet
InitConstruct ==
    /\ call = "__init__"
    /\ hyperparameters \in
          {Restrict(Hyperparameters(b, E, r), K) :
              b \in 1..MaxBatch, E \in 0..MaxEpochs, r \in 0..MaxRatio,
              K \in SUBSET KeySet}
    /\ assigned = {}
    /\ batch_size = 0
    /\ epochs = 0
    /\ negative_samples_ratio = 0
    /\ train_samples = << >>
    /\ training_samples = << >>
    /\ save_path = FALSE
    /\ evaluate_every = -1
    /\ valid_samples = FALSE

\* a constructed optimizer on which train() is called: with a one-row
\* array and a positive batch size every combination of the other
\* arguments is tried; longer arrays and batch sizes that are not positive
\* are tried with train()'s default arguments
InitTrain ==
    /\ call = "train"
    /\ batch_size \in (-MaxNegBatch)..MaxBatch
    /\ epochs \in 0..MaxEpochs
    /\ negative_samples_ratio = 1
    /\ train_samples \in {a \in Arrays(MaxRows) : 2 * Len(a) <= MaxRows}
    /\ training_samples = << >>
    /\ IF batch_size >= 1 /\ Len(train_samples) = 1
       THEN /\ save_path \in BOOLEAN
            /\ evaluate_every \in -1..MaxEvery
            /\ valid_samples \in BOOLEAN
       ELSE /\ save_path = FALSE
            /\ evaluate_every = -1
            /\ valid_samples = FALSE

\* a constructed optimizer on which epoch() or step_on_batch() is called
InitDirect ==
    /\ call \in {"epoch", "step_on_batch"}
    /\ batch_size \in
          IF call = "epoch" THEN (-MaxNegBatch)..MaxBatch ELSE {MaxBatch}
    /\ epochs = MaxEpochs
    /\ negative_samples_ratio \in
          IF call = "epoch" THEN 0..MaxRatio ELSE {1}
    /\ train_samples = << >>
    /\ training_samples \in
          IF call = "epoch" THEN Arrays(MaxRows) ELSE {<< >>}
    /\ save_path = FALSE
    /\ evaluate_every = -1
    /\ valid_samples = FALSE

Init ==
    /\ kelpie \in BOOLEAN
    /\ \/ InitConstruct
       \/ /\ InitTrain \/ InitDirect
          /\ hyperparameters =
                Hyperparameters(batch_size, epochs, negative_samples_ratio)
          /\ assigned = {Attributes[i] : i \in DOMAIN Attributes}
                          \cup Collaborators
    /\ aliased = (call = "epoch")
    /\ caller_samples = IF aliased THEN training_samples ELSE train_samples
    /\ e = 0
    /\ batch_start = 0
    /\ batches = << >>
    /\ negative_batches = << >>
    /\ training = TRUE
    /\ params = 0
    /\ embeddings = 0
    /\ checkpoint = -1
    /\ pc = "start"
    /\ trace = << >>

\* a collaborator call and the epoch it is made in
Ev(op, ep) == <<op, ep>>

\* ---------------------------------------------------------------- __init__
\* mutant: the regularizer weight is read with a default
FirstMissingLenient(hp) ==
    LET missing == {i \in 1..(Len(Keys) - 1) : Keys[i] \notin DOMAIN hp}
    IN  IF missing = {} THEN Len(Keys) + 1
        ELSE CHOOSE i \in missing : \A j \in missing : i <= j

\* lines 36-41: the index of the first hyperparameters[KEY] that raises
\* KeyError, Len(Keys) + 1 if none does
FirstMissing(hp) ==
    LET missing == {i \in DOMAIN Keys : Keys[i] \notin DOMAIN hp}
    IN  IF missing = {} THEN Len(Keys) + 1
        ELSE CHOOSE i \in missing : \A j \in missing : i <= j

\* lines 34-47 and 137-141: the constructors
Construct ==
    /\ pc = "start"
    /\ call = "__init__"
    /\ LET first == FirstMissing(hyperparameters)
           read(i, old) == IF i < first /\ Keys[i] \in DOMAIN hyperparameters
                           THEN hyperparameters[Keys[i]] ELSE old
       IN  /\ batch_size' = read(1, batch_size)
           /\ epochs' = read(3, epochs)
           /\ negative_samples_ratio' = read(5, negative_samples_ratio)
           /\ IF first > Len(Keys)
              THEN /\ assigned' = {Attributes[i] : i \in DOMAIN Attributes}
                                     \cup Collaborators
                   /\ trace' = trace
                        \o <<Ev("Optimizer.__init__", e),
                             Ev("CorruptionEngine", e), Ev("Adam", e)>>
                        \o (IF kelpie THEN <<Ev("SGD", e)>> ELSE << >>)
                   /\ pc' = "done"
              ELSE /\ assigned' = {Attributes[i] : i \in 1..(first - 1)}
                   /\ trace' = trace
                        \o <<Ev("Optimizer.__init__", e), Ev("raise", e)>>
                   /\ pc' = "aborted"
    /\ UNCHANGED <<call, kelpie, train_samples, save_path, evaluate_every,
                   valid_samples, hyperparameters, training_samples,
                   caller_samples, aliased, e,
                   batch_start, batches, negative_batches, training, params,
                   embeddings, checkpoint>>

\* ---------------------------------------------------------- step_on_batch
Outcomes == {"ok", "forward_positive", "forward_negative", "backward"}

\* mutant: the optimizer update is skipped while the model is in eval mode
step_on_batch_frozen(outcome, ep, p) ==
    LET begun == <<Ev("zero_grad", ep), Ev("forward_positive", ep)>>
        both == Append(begun, Ev("forward_negative", ep))
        back == both \o <<Ev("loss", ep), Ev("backward", ep)>>
    IN  IF outcome = "forward_positive"
        THEN [calls |-> Append(begun, Ev("raise", ep)), params |-> p]
        ELSE IF outcome = "forward_negative"
        THEN [calls |-> Append(both, Ev("raise", ep)), params |-> p]
        ELSE IF outcome = "backward"
        THEN [calls |-> Append(back, Ev("raise", ep)), params |-> p]
        ELSE IF training
        THEN [calls |-> Append(back, Ev("step", ep)), params |-> p + 1]
        ELSE [calls |-> back, params |-> p]

\* mutant: the gradients of the previous step are not cleared
step_on_batch_no_zero_grad(outcome, ep, p) ==
    LET begun == <<Ev("forward_positive", ep)>>
        both == Append(begun, Ev("forward_negative", ep))
        back == both \o <<Ev("loss", ep), Ev("backward", ep)>>
    IN  IF outcome = "forward_positive"
        THEN [calls |-> Append(begun, Ev("raise", ep)), params |-> p]
        ELSE IF outcome = "forward_negative"
        THEN [calls |-> Append(both, Ev("raise", ep)), params |-> p]
        ELSE IF outcome = "backward"
        THEN [calls |-> Append(back, Ev("raise", ep)), params |-> p]
        ELSE [calls |-> Append(back, Ev("step", ep)), params |-> p + 1]

\* lines 114-129: the collaborator calls of one step (a raising call is the
\* last one) and the parameters after it, p being the parameters before
step_on_batch(outcome, ep, p) ==
    LET begun == <<Ev("zero_grad", ep), Ev("forward_positive", ep)>>
        both == Append(begun, Ev("forward_negative", ep))
        back == both \o <<Ev("loss", ep), Ev("backward", ep)>>
    IN  IF outcome = "forward_positive"
        THEN [calls |-> Append(begun, Ev("raise", ep)), params |-> p]
        ELSE IF outcome = "forward_negative"
        THEN [calls |-> Append(both, Ev("raise", ep)), params |-> p]
        ELSE IF outcome = "backward"
        THEN [calls |-> Append(back, Ev("raise", ep)), params |-> p]
        ELSE [calls |-> Append(back, Ev("step", ep)), params |-> p + 1]

\* ---------------------------------------------------------- extract_batch
\* mutant: the end of the slice is taken as inclusive
extract_batch_short(samples, start, size) ==
    Slice(samples, start, Min(start + size, Len(samples)) - 1)

\* lines 107-111: the slice handed to the Corruption Engine
extract_batch(samples, start, size) ==
    Slice(samples, start, Min(start + size, Len(samples)))

\* mutant: the engine is asked for one negative per positive
positive_negative_ratio_one(samples, start, size) ==
    corrupt_samples(extract_batch(samples, start, size), 1)

\* lines 109-111: what extract_batch returns, the engine's two batches
positive_negative(samples, start, size) ==
    corrupt_samples(extract_batch(samples, start, size),
                    negative_samples_ratio)

\* ------------------------------------------------------------------ train
\* mutant: the caller's array itself is handed to epoch()
TrainNoCopy ==
    /\ pc = "start"
    /\ call = "train"
    /\ training_samples' = train_samples
    /\ aliased' = TRUE
    /\ trace' = trace \o <<Ev("invert_samples", e), Ev("cuda", e)>>
    /\ pc' = "for"
    /\ UNCHANGED <<config, caller_samples, e, batch_start, batches,
                   negative_batches, training, params, embeddings, checkpoint>>

\* lines 55-59: build the augmented set, move the model to the device
Train ==
    /\ pc = "start"
    /\ call = "train"
    /\ training_samples' = vstack(train_samples, invert_samples(train_samples))
    /\ aliased' = FALSE
    /\ trace' = trace \o <<Ev("invert_samples", e), Ev("cuda", e)>>
    /\ pc' = "for"
    /\ UNCHANGED <<config, caller_samples, e, batch_start, batches,
                   negative_batches, training, params, embeddings, checkpoint>>

\* mutant: the epoch does not switch the model to training mode
EnterEpochKeepMode(ep) ==
    /\ training_samples' \in Shuffles(training_samples)
    /\ caller_samples' = IF aliased THEN training_samples' ELSE caller_samples
    /\ UNCHANGED aliased
    /\ training' = training
    /\ batch_start' = 0
    /\ batches' = << >>
    /\ negative_batches' = << >>
    /\ trace' = trace \o <<Ev("shuffle", ep)>>
    /\ pc' = "while"

\* lines 87-92 and 149-155: shuffle in place, training mode, batch_start = 0
EnterEpoch(ep) ==
    /\ training_samples' \in Shuffles(training_samples)
    /\ caller_samples' = IF aliased THEN training_samples' ELSE caller_samples
    /\ UNCHANGED aliased
    /\ training' = TRUE
    /\ batch_start' = 0
    /\ batches' = << >>
    /\ negative_batches' = << >>
    /\ trace' = trace \o <<Ev("shuffle", ep), Ev("train", ep)>>
    /\ pc' = "while"

\* lines 61-62: the next value of e, and the call of self.epoch
ForNext ==
    /\ pc = "for"
    /\ e < epochs
    /\ e' = e + 1
    /\ EnterEpoch(e + 1)
    /\ UNCHANGED <<config, params, embeddings, checkpoint>>

\* a client calling epoch(batch_size, training_samples) itself
EpochCall ==
    /\ pc = "start"
    /\ call = "epoch"
    /\ EnterEpoch(e)
    /\ UNCHANGED <<config, e, params, embeddings, checkpoint>>

\* mutant: an exception of the step is caught and the loop goes on
BatchIterationSwallow(sync) ==
    \E outcome \in Outcomes :
        LET original_batch ==
                extract_batch(training_samples, batch_start, batch_size)
            stepped == step_on_batch(outcome, e, params)
        IN  /\ batches' = Append(batches, original_batch)
            /\ negative_batches' =
                  Append(negative_batches,
                         positive_negative(training_samples, batch_start,
                                           batch_size).negative)
            /\ trace' = trace \o <<Ev("extract_batch", e)>> \o stepped.calls
                              \o (IF sync /\ outcome = "ok"
                                  THEN <<Ev("update_embeddings", e)>>
                                  ELSE << >>)
            /\ params' = stepped.params
            /\ embeddings' = IF sync THEN stepped.params ELSE embeddings
            /\ batch_start' = batch_start + batch_size
            /\ pc' = "while"
            /\ UNCHANGED <<config, training_samples, caller_samples, aliased, e, training, checkpoint>>

\* one iteration of epoch()'s while loop; sync: update_embeddings is called
BatchIteration(sync) ==
    \E outcome \in Outcomes :
        LET original_batch ==
                extract_batch(training_samples, batch_start, batch_size)
            stepped == step_on_batch(outcome, e, params)
        IN  /\ batches' = Append(batches, original_batch)
            /\ negative_batches' =
                  Append(negative_batches,
                         positive_negative(training_samples, batch_start,
                                           batch_size).negative)
            /\ IF outcome = "ok"
               THEN /\ trace' = trace \o <<Ev("extract_batch", e)>>
                                  \o stepped.calls
                                  \o (IF sync
                                      THEN <<Ev("update_embeddings", e)>>
                                      ELSE << >>)
                    /\ params' = stepped.params
                    /\ embeddings' = IF sync THEN stepped.params
                                              ELSE embeddings
                    /\ batch_start' = batch_start + batch_size
                    /\ pc' = "while"
               ELSE /\ trace' = trace \o <<Ev("extract_batch", e)>>
                                  \o stepped.calls
                    /\ params' = stepped.params
                    /\ pc' = "aborted"
                    /\ UNCHANGED <<embeddings, batch_start>>
            /\ UNCHANGED <<config, training_samples, caller_samples, aliased, e, training, checkpoint>>

\* mutant: the loop goes on while batch_start <= len(training_samples)
WhileBodyOneMore ==
    /\ pc = "while"
    /\ ~kelpie
    /\ batch_start <= Len(training_samples)
    /\ batch_size >= 1 \/ Len(batches) < MaxIterations
    /\ BatchIteration(FALSE)

\* lines 94-102: PairwiseRankingOptimizer.epoch, loop body
WhileBody ==
    /\ pc = "while"
    /\ ~kelpie
    /\ batch_start < Len(training_samples)
    /\ batch_size >= 1 \/ Len(batches) < MaxIterations
    /\ BatchIteration(FALSE)

\* mutant: the Kelpie loop body without the update_embeddings call
KelpieWhileBodyNoSync ==
    /\ pc = "while"
    /\ kelpie
    /\ batch_start < Len(training_samples)
    /\ batch_size >= 1 \/ Len(batches) < MaxIterations
    /\ BatchIteration(FALSE)

\* mutant: update_embeddings is called after the first batch of an epoch only
KelpieWhileBodySyncFirstBatch ==
    /\ pc = "while"
    /\ kelpie
    /\ batch_start < Len(training_samples)
    /\ batch_size >= 1 \/ Len(batches) < MaxIterations
    /\ BatchIteration(batch_start = 0)

\* mutant: the Kelpie loop body catches what the step raises
KelpieWhileBodySwallow ==
    /\ pc = "while"
    /\ kelpie
    /\ batch_start < Len(training_samples)
    /\ batch_size >= 1 \/ Len(batches) < MaxIterations
    /\ BatchIterationSwallow(TRUE)

\* lines 157-172: KelpiePairwiseRankingOptimizer.epoch, loop body
KelpieWhileBody ==
    /\ pc = "while"
    /\ kelpie
    /\ batch_start < Len(training_samples)
    /\ batch_size >= 1 \/ Len(batches) < MaxIterations
    /\ BatchIteration(TRUE)

\* lines 94 and 157: the loop condition fails, epoch() returns
WhileExit ==
    /\ pc = "while"
    /\ batch_start >= Len(training_samples)
    /\ pc' = IF call = "epoch" THEN "done" ELSE "validate"
    /\ UNCHANGED <<config, training_samples, caller_samples, aliased, e, batch_start, batches, negative_batches,
                   training, params, embeddings, checkpoint, trace>>

\* mutant: the epoch is counted from 0
ValidationDueZeroBased(ep) ==
    /\ evaluate_every > 0
    /\ valid_samples
    /\ (ep - 1) % evaluate_every = 0

\* mutant: the sign of evaluate_every is not tested
ValidationDueAnySign(ep) ==
    /\ evaluate_every # 0
    /\ valid_samples
    /\ ep % (IF evaluate_every < 0 THEN -evaluate_every ELSE evaluate_every) = 0

\* mutant: valid_samples is not tested
ValidationDueNoSamplesTest(ep) ==
    /\ evaluate_every > 0
    /\ ep % evaluate_every = 0

\* line 64: the condition of the validation block
ValidationDue(ep) ==
    /\ evaluate_every > 0
    /\ valid_samples
    /\ ep % evaluate_every = 0

\* mutant: the checkpoint is written before the evaluation
ValidateSaveFirst ==
    /\ pc = "validate"
    /\ IF ValidationDue(e)
       THEN /\ training' = FALSE
            /\ trace' = trace
                              \o (IF save_path THEN <<Ev("save", e)>> ELSE << >>)
                              \o <<Ev("eval", e), Ev("evaluator", e)>>
            /\ checkpoint' = IF save_path THEN params ELSE checkpoint
       ELSE UNCHANGED <<training, trace, checkpoint>>
    /\ pc' = "for"
    /\ UNCHANGED <<config, training_samples, caller_samples, aliased, e, batch_start, batches, negative_batches, params,
                   embeddings>>

\* mutant: the model is put back in training mode after the evaluation
ValidateRestoreMode ==
    /\ pc = "validate"
    /\ IF ValidationDue(e)
       THEN /\ training' = TRUE
            /\ trace' = trace \o <<Ev("eval", e), Ev("evaluator", e),
                                    Ev("train", e)>>
                              \o (IF save_path THEN <<Ev("save", e)>> ELSE << >>)
            /\ checkpoint' = IF save_path THEN params ELSE checkpoint
       ELSE UNCHANGED <<training, trace, checkpoint>>
    /\ pc' = "for"
    /\ UNCHANGED <<config, training_samples, caller_samples, aliased, e,
                   batch_start, batches, negative_batches, params, embeddings>>

\* lines 64-76: validation and the intermediate checkpoint
Validate ==
    /\ pc = "validate"
    /\ IF ValidationDue(e)
       THEN /\ training' = FALSE
            /\ trace' = trace \o <<Ev("eval", e), Ev("evaluator", e)>>
                              \o (IF save_path THEN <<Ev("save", e)>> ELSE << >>)
            /\ checkpoint' = IF save_path THEN params ELSE checkpoint
       ELSE UNCHANGED <<training, trace, checkpoint>>
    /\ pc' = "for"
    /\ UNCHANGED <<config, training_samples, caller_samples, aliased, e, batch_start, batches, negative_batches, params,
                   embeddings>>

\* mutant: no final write when the last epoch already wrote the checkpoint
ForExitSkipAfterValidation ==
    /\ pc = "for"
    /\ e >= epochs
    /\ IF save_path /\ ~ValidationDue(e)
       THEN /\ trace' = Append(trace, Ev("save", e))
            /\ checkpoint' = params
       ELSE UNCHANGED <<trace, checkpoint>>
    /\ pc' = "done"
    /\ UNCHANGED <<config, training_samples, caller_samples, aliased, e, batch_start, batches, negative_batches,
                   training, params, embeddings>>

\* lines 78-81: the loop is over, the final checkpoint
ForExit ==
    /\ pc = "for"
    /\ e >= epochs
    /\ IF save_path
       THEN /\ trace' = Append(trace, Ev("save", e))
            /\ checkpoint' = params
       ELSE UNCHANGED <<trace, checkpoint>>
    /\ pc' = "done"
    /\ UNCHANGED <<config, training_samples, caller_samples, aliased, e, batch_start, batches, negative_batches,
                   training, params, embeddings>>

\* a client switching the model to evaluation mode before a step
ModelEval ==
    /\ pc = "start"
    /\ call = "step_on_batch"
    /\ training
    /\ training' = FALSE
    /\ trace' = Append(trace, Ev("eval", e))
    /\ UNCHANGED <<config, training_samples, caller_samples, aliased, e, batch_start, batches, negative_batches, params,
                   embeddings, checkpoint, pc>>

\* a client calling step_on_batch(positive_batch, negative_batch) itself
StepCall ==
    /\ pc = "start"
    /\ call = "step_on_batch"
    /\ \E outcome \in Outcomes :
          /\ trace' = trace \o step_on_batch(outcome, e, params).calls
          /\ params' = step_on_batch(outcome, e, params).params
          /\ pc' = IF outcome = "ok" THEN "done" ELSE "aborted"
    /\ UNCHANGED <<config, training_samples, caller_samples, aliased, e, batch_start, batches, negative_batches,
                   training, embeddings, checkpoint>>

Next ==
    \/ Construct
    \/ Train
    \/ ForNext
    \/ EpochCall
    \/ WhileBody
    \/ KelpieWhileBody
    \/ WhileExit
    \/ Validate
    \/ ForExit
    \/ ModelEval
    \/ StepCall

Spec == Init /\ [][Next]_vars

\* the interpreter keeps running the call: a step that can be taken is taken
FairSpec == Spec /\ WF_vars(Next)

TypeOK ==
    /\ pc \in {"start", "for", "while", "validate", "done", "aborted"}
    /\ e \in 0..(MaxEpochs + 1)
    /\ batch_size >= 1 => batch_start >= 0
    /\ params >= 0

\* ------------------------------------------------------- reading the trace
Op(i) == trace[i][1]
EpochOf(i) == trace[i][2]
Count(op) == Cardinality({i \in DOMAIN trace : Op(i) = op})
CountIn(op, ep) ==
    Cardinality({i \in DOMAIN trace : Op(i) = op /\ EpochOf(i) = ep})
Saves == SelectSeq(trace, LAMBDA ev : ev[1] = "save")
LastOp == IF trace = << >> THEN "none" ELSE Op(Len(trace))

\* the calls made during epoch ep after its last batch iteration
AfterLastBatch(ep) ==
    LET of == SelectSeq(trace, LAMBDA ev : ev[2] = ep)
        ends == {i \in DOMAIN of : of[i][1] \in {"step", "update_embeddings"}}
        last == IF ends = {} THEN 0
                ELSE CHOOSE i \in ends : \A j \in ends : j <= i
    IN  SubSeq(of, last + 1, Len(of))

\* ------------------------------------------------------------------ claims

\* C1: train() with save_path and valid_samples given, evaluate_every = k > 0
\* and EPOCHS = E >= 1 writes the checkpoint after each epoch that is a
\* multiple of k and once more at the end: floor(E / k) + 1 writes in all.
C1_CheckpointWrites ==
    (call = "train" /\ save_path /\ valid_samples /\ evaluate_every > 0
       /\ epochs >= 1 /\ pc \in {"for", "done"})
    => LET done == IF pc = "done" THEN epochs ELSE e
           intermediate == [i \in 1..(done \div evaluate_every) |->
                               <<"save", i * evaluate_every>>]
       IN  /\ Saves = intermediate
                       \o (IF pc = "done" THEN << <<"save", epochs>> >>
                                            ELSE << >>)
           /\ pc = "done" => Len(Saves) = (epochs \div evaluate_every) + 1

C1_Witness ==
    /\ call = "train" /\ save_path /\ valid_samples /\ pc = "done"
    /\ evaluate_every = 2 /\ epochs = 3
    /\ Saves = << <<"save", 2>>, <<"save", 3>> >>

\* C2: a train() that completes with save_path given ends with a checkpoint
\* write, made after the last optimizer step and holding the final
\* parameters; without save_path no checkpoint is ever written.
C2_FinalWrite ==
    call = "train" =>
        /\ (save_path /\ pc = "done") =>
               /\ LastOp = "save"
               /\ checkpoint = params
               /\ \A i \in DOMAIN trace :
                      Op(i) \in {"step", "update_embeddings"} => i < Len(trace)
        /\ ~save_path => (Count("save") = 0 /\ checkpoint = -1)

C2_Witness ==
    /\ call = "train" /\ save_path /\ pc = "done" /\ LastOp = "save"
    /\ ~valid_samples /\ evaluate_every = 1 /\ epochs = 2 /\ params = 4

C2_WitnessNoPath ==
    /\ call = "train" /\ ~save_path /\ pc = "done" /\ valid_samples
    /\ evaluate_every = 1 /\ epochs = 2 /\ Count("evaluator") = 2

\* C3: with evaluate_every <= 0 train() never calls the Evaluator and never
\* switches the model to evaluation mode, with or without valid_samples,
\* and the only checkpoint write it can make is the final one.
C3_ValidationDisabled ==
    (call = "train" /\ evaluate_every <= 0) =>
        /\ Count("evaluator") = 0
        /\ Count("eval") = 0
        /\ training
        /\ Count("save") <= 1
        /\ Count("save") = 1 => (pc = "done" /\ LastOp = "save" /\ save_path)

C3_Witness ==
    /\ call = "train" /\ evaluate_every = -1 /\ valid_samples /\ save_path
    /\ epochs = 3 /\ pc = "done" /\ Count("save") = 1

\* C4: after the last batch of an epoch at which validation is due and
\* before the next epoch, train() switches the model to evaluation mode,
\* calls the Evaluator once and then, if save_path is given, writes the
\* checkpoint once, in this order; after any other epoch it does nothing;
\* an intermediate write always directly follows an Evaluator call of the
\* same epoch.
C4_Due(ep) == evaluate_every > 0 /\ valid_samples /\ ep % evaluate_every = 0

C4_ValidationOrder ==
    call = "train" =>
        /\ \A i \in 2..Len(trace) : EpochOf(i - 1) <= EpochOf(i)
        /\ pc \in {"for", "done"} =>
              \A ep \in 1..e :
                  AfterLastBatch(ep) =
                      (IF C4_Due(ep)
                       THEN <<Ev("eval", ep), Ev("evaluator", ep)>>
                            \o (IF save_path THEN <<Ev("save", ep)>>
                                             ELSE << >>)
                       ELSE << >>)
                      \o (IF pc = "done" /\ ep = epochs /\ save_path
                          THEN <<Ev("save", ep)>> ELSE << >>)
        /\ \A i \in DOMAIN trace :
              (Op(i) = "save" /\ ~(pc = "done" /\ i = Len(trace))) =>
                  (i > 1 /\ trace[i - 1] = Ev("evaluator", EpochOf(i)))

C4_Witness ==
    /\ call = "train" /\ save_path /\ valid_samples /\ evaluate_every = 2
    /\ epochs = 3 /\ e = 3 /\ pc = "while" /\ batch_start = 0
    /\ AfterLastBatch(2) = <<Ev("eval", 2), Ev("evaluator", 2), Ev("save", 2)>>
    /\ AfterLastBatch(1) = << >>

\* C5: in the Kelpie variant every optimizer update of an epoch is directly
\* followed by update_embeddings and update_embeddings is called nowhere
\* else, so after N batches of an epoch it has been called N times and the
\* next batch's extraction and forward passes come after it.
C5_ProxySync ==
    (kelpie /\ call \in {"train", "epoch"}) =>
        /\ \A i \in DOMAIN trace :
              Op(i) = "step" =>
                  (i < Len(trace)
                   /\ trace[i + 1] = Ev("update_embeddings", EpochOf(i)))
        /\ \A i \in DOMAIN trace :
              Op(i) = "update_embeddings" => (i > 1 /\ Op(i - 1) = "step")
        /\ pc = "while" =>
              /\ CountIn("update_embeddings", e) = Len(batches)
              /\ CountIn("step", e) = Len(batches)
        /\ embeddings = params

C5_Witness ==
    /\ kelpie /\ call = "epoch" /\ pc = "while" /\ Len(batches) = 3
    /\ Count("update_embeddings") = 3 /\ LastOp = "update_embeddings"

\* C6: one epoch() over n >= 1 rows with batch_size b >= 1 extracts and
\* steps on ceil(n / b) batches, at batch_start = 0, b, 2b, ...; batch i is
\* the rows (i-1)b+1 .. min(ib, n) of the shuffled set, so it is non-empty,
\* at most b long and only the last may be shorter; together the batches
\* are the shuffled set, each row once.
Ceil(n, b) == (n + b - 1) \div b

RECURSIVE Flatten(_)
Flatten(ss) == IF ss = << >> THEN << >> ELSE Head(ss) \o Flatten(Tail(ss))

EpochOver ==
    \/ call = "epoch" /\ pc = "done"
    \/ call = "train" /\ pc \in {"validate", "for", "done"} /\ e >= 1

InEpoch == pc \in {"while", "aborted"} \/ EpochOver

C6_Batches ==
    (call \in {"train", "epoch"} /\ batch_size >= 1 /\ InEpoch) =>
        LET n == Len(training_samples)
            b == batch_size
        IN  /\ \A i \in DOMAIN batches :
                  /\ batches[i] =
                         SubSeq(training_samples, (i - 1) * b + 1, Min(i * b, n))
                  /\ Len(batches[i]) = Min(b, n - (i - 1) * b)
                  /\ Len(batches[i]) >= 1
                  /\ Len(batches[i]) <= b
                  /\ Len(batches[i]) < b => i = Ceil(n, b)
            /\ Len(batches) <= Ceil(n, b)
            /\ pc = "while" => batch_start = Len(batches) * b
            /\ pc = "aborted" => batch_start = (Len(batches) - 1) * b
            /\ EpochOver =>
                  /\ Len(batches) = Ceil(n, b)
                  /\ Flatten(batches) = training_samples
                  /\ CountIn("extract_batch", e) = Ceil(n, b)
                  /\ CountIn("step", e) = Ceil(n, b)

C6_Witness ==
    /\ call = "epoch" /\ pc = "done" /\ batch_size = 3
    /\ Len(training_samples) = 4 /\ Len(batches) = 2
    /\ Len(batches[1]) = 3 /\ Len(batches[2]) = 1

\* C7 as stated: a step_on_batch call made with the model in evaluation
\* mode leaves the parameters as they were before the call.
C7_EvalModeStepIsNoOp ==
    (call = "step_on_batch" /\ pc = "done" /\ ~training) => params = 0

\* C7 as amended: step_on_batch does not look at the model's mode; a call
\* in which nothing raises applies exactly one optimizer update, in
\* evaluation mode as in training mode, and leaves the mode as it was;
\* a call that raises applies none.
C7_StepIgnoresMode ==
    call = "step_on_batch" =>
        /\ pc = "done" => (params = 1 /\ Count("step") = 1 /\ LastOp = "step")
        /\ pc = "aborted" => (params = 0 /\ Count("step") = 0)
        /\ training <=> Count("eval") = 0

C7_Witness ==
    /\ call = "step_on_batch" /\ pc = "done" /\ ~training /\ params = 1
    /\ Count("eval") = 1

\* C8: when a forward pass or the backward pass raises in a batch step of
\* train(), that is the last thing the run does: the batch is not retried,
\* no later step, Evaluator call or checkpoint write follows, the final
\* write included, and the parameters stay as they were before the step.
C8_AbortOnRaise ==
    call = "train" =>
        /\ \A i \in DOMAIN trace :
              Op(i) = "raise" =>
                  /\ i = Len(trace)
                  /\ i > 1
                  /\ Op(i - 1) \in
                        {"forward_positive", "forward_negative", "backward"}
        /\ pc = "aborted" <=> LastOp = "raise"
        /\ pc = "aborted" =>
              /\ ~ENABLED Next
              /\ params = Count("step")
              /\ CountIn("evaluator", e) = 0
              /\ \A i \in DOMAIN trace :
                    Op(i) = "save" =>
                        (i > 1 /\ trace[i - 1] = Ev("evaluator", EpochOf(i))
                               /\ EpochOf(i) < e)

C8_Witness ==
    /\ call = "train" /\ pc = "aborted" /\ save_path /\ valid_samples
    /\ evaluate_every = 1 /\ epochs = 3 /\ e = 2 /\ LastOp = "raise"
    /\ Op(Len(trace) - 1) = "backward" /\ Len(batches) = 2
    /\ Count("save") = 1

\* C9: the set train() works on is the caller's rows followed by their
\* inversions, 2 x len(train_samples) rows, built once before the first
\* epoch; every shuffle keeps its size and its multiset of rows.
CountRow(s, r) == Cardinality({i \in DOMAIN s : s[i] = r})

SameRows(s, t) ==
    /\ Len(s) = Len(t)
    /\ \A i \in DOMAIN s : CountRow(s, s[i]) = CountRow(t, s[i])

C9_AugmentedSet ==
    (call = "train" /\ pc # "start") =>
        LET built == train_samples \o invert_samples(train_samples)
        IN  /\ Len(training_samples) = 2 * Len(train_samples)
            /\ SameRows(training_samples, built)
            /\ e = 0 => training_samples = built
            /\ Count("invert_samples") = 1
            /\ Op(1) = "invert_samples"
            /\ Count("shuffle") = e

C9_Witness ==
    /\ call = "train" /\ pc = "while" /\ e = 3 /\ Len(train_samples) = 2
    /\ Len(training_samples) = 4
    /\ training_samples # train_samples \o invert_samples(train_samples)
    /\ training_samples[1] = invert_samples(train_samples)[2]

\* C10: with evaluate_every > 0 and no valid_samples train() raises nothing
\* of its own: it never calls the Evaluator, never writes an intermediate
\* checkpoint, runs all EPOCHS epochs and makes the final write if
\* save_path is given.
C10_NoValidSamples ==
    (call = "train" /\ evaluate_every > 0 /\ ~valid_samples) =>
        /\ Count("evaluator") = 0
        /\ Count("eval") = 0
        /\ training
        /\ pc # "done" => Count("save") = 0
        /\ pc = "aborted" => LastOp = "raise"
        /\ pc \notin {"done", "aborted"} => ENABLED Next
        /\ pc = "done" =>
              /\ e = epochs
              /\ Count("shuffle") = epochs
              /\ Count("save") = (IF save_path THEN 1 ELSE 0)
              /\ save_path => (LastOp = "save" /\ checkpoint = params)

C10_Witness ==
    /\ call = "train" /\ evaluate_every = 1 /\ ~valid_samples /\ save_path
    /\ epochs = 3 /\ pc = "done" /\ Count("shuffle") = 3
    /\ Count("save") = 1

\* C11: constructing either optimizer from a mapping that lacks one of the
\* six keys raises and leaves no usable optimizer: the attribute of the
\* missing key is never set, no default is put in its place and neither the
\* corruption engine nor the torch optimizer is created; with all six keys
\* the attributes are the mapping's values.
C11_MissingKeyIsFatal ==
    (call = "__init__" /\ pc # "start") =>
        /\ \A i \in DOMAIN Keys :
              Keys[i] \notin DOMAIN hyperparameters =>
                  /\ pc = "aborted"
                  /\ LastOp = "raise"
                  /\ Attributes[i] \notin assigned
                  /\ assigned \cap Collaborators = {}
                  /\ Count("Adam") = 0 /\ Count("SGD") = 0
                  /\ ~ENABLED Next
        /\ \A i \in DOMAIN Keys :
              Attributes[i] \in assigned => Keys[i] \in DOMAIN hyperparameters
        /\ KeySet \subseteq DOMAIN hyperparameters =>
              /\ pc = "done"
              /\ Collaborators \subseteq assigned
              /\ batch_size = hyperparameters["BATCH_SIZE"]
              /\ epochs = hyperparameters["EPOCHS"]
              /\ negative_samples_ratio =
                    hyperparameters["NEGATIVE_SAMPLES_RATIO"]
              /\ Count("SGD") = (IF kelpie THEN 1 ELSE 0)

C11_Witness ==
    /\ call = "__init__" /\ kelpie /\ pc = "aborted"
    /\ DOMAIN hyperparameters = KeySet \ {"REGULARIZER_WEIGHT"}
    /\ assigned = {Attributes[i] : i \in 1..5}
    /\ batch_size = 2 /\ LastOp = "raise"

\* C12: every batch extracted in an epoch comes with a negative batch that
\* is the engine's output for that slice and the configured ratio, so its
\* length is the positive batch's length times the ratio, for the
\* truncated last batch too.
C12_NegativeBatchLength ==
    (call \in {"train", "epoch"} /\ InEpoch) =>
        /\ Len(negative_batches) = Len(batches)
        /\ \A i \in DOMAIN batches :
              /\ Len(negative_batches[i]) =
                    Len(batches[i]) * negative_samples_ratio
              /\ \A j \in DOMAIN negative_batches[i] :
                    \E k \in DOMAIN batches[i] :
                        /\ negative_batches[i][j][1] = batches[i][k][1]
                        /\ negative_batches[i][j][2] = batches[i][k][2]

C12_Witness ==
    /\ call = "epoch" /\ pc = "done" /\ negative_samples_ratio = 2
    /\ batch_size = 3 /\ Len(training_samples) = 4
    /\ Len(batches[2]) = 1 /\ Len(negative_batches[2]) = 2
    /\ Len(negative_batches[1]) = 6

\* C13 as stated: every step_on_batch call makes all six calls, so in any
\* run there are as many optimizer updates as batches extracted.
C13_UpdatesEqualExtractions ==
    call \in {"train", "epoch"} => Count("step") = Count("extract_batch")

\* C13 as amended: a step_on_batch call in which nothing raises makes, in
\* this order and once each, the calls zero_grad, forward on the positive
\* batch, forward on the negative batch, loss, backward, optimizer step; a
\* call in which a forward or the backward pass raises stops there, with no
\* update.  So the optimizer updates are as many as the batches extracted
\* whose step did not raise, and no update is made outside a step.
\* what may directly precede the calls of a step, and what may directly
\* follow a call that is not the last of its step
StepPredecessors ==
    {<<"extract_batch", "zero_grad">>, <<"zero_grad", "forward_positive">>,
     <<"forward_positive", "forward_negative">>,
     <<"forward_negative", "loss">>, <<"loss", "backward">>,
     <<"backward", "step">>}

StepSuccessors ==
    StepPredecessors \cup
    {<<"forward_positive", "raise">>, <<"forward_negative", "raise">>,
     <<"backward", "raise">>}

InStep == {pair[2] : pair \in StepPredecessors}
Unfinished == {pair[1] : pair \in StepPredecessors}

C13_StepSequence ==
    call \in {"train", "epoch", "step_on_batch"} =>
        /\ \A i \in 2..Len(trace) :
              /\ Op(i) \in InStep =>
                    \/ <<Op(i - 1), Op(i)>> \in StepPredecessors
                    \/ call = "step_on_batch" /\ Op(i) = "zero_grad"
              /\ Op(i - 1) \in Unfinished =>
                    <<Op(i - 1), Op(i)>> \in StepSuccessors
        /\ trace # << >> =>
              /\ Op(1) \in InStep =>
                    (call = "step_on_batch" /\ Op(1) = "zero_grad")
              /\ LastOp \notin Unfinished
        /\ params = Count("step")
        /\ Count("zero_grad") = Count("step") + Count("raise")
        /\ call # "step_on_batch" =>
              Count("extract_batch") = Count("step") + Count("raise")

C13_Witness ==
    /\ call = "train" /\ pc = "aborted" /\ e = 2
    /\ Count("extract_batch") = 4 /\ Count("step") = 3 /\ params = 3
    /\ Op(Len(trace) - 1) = "forward_negative"

\* C14: in train() and in epoch(), of either class, every batch step runs
\* with the model in training mode and every Evaluator call with the model
\* in evaluation mode: each epoch switches to training mode right after its
\* shuffle, before its first batch, also when a validation came before.
C14_ModeOfEveryStep ==
    call \in {"train", "epoch"} =>
        /\ pc \in {"while", "aborted"} => training
        /\ \A i \in 2..Len(trace) :
              /\ Op(i) = "extract_batch" =>
                    Op(i - 1) \in {"train", "step", "update_embeddings"}
              /\ Op(i) = "evaluator" => trace[i - 1] = Ev("eval", EpochOf(i))
              /\ Op(i - 1) = "shuffle" => trace[i] = Ev("train", EpochOf(i - 1))
              /\ Op(i - 1) = "eval" => Op(i) = "evaluator"
        /\ LastOp \notin {"shuffle", "eval"}
        /\ (LastOp = "evaluator"
              \/ (pc = "for" /\ LastOp = "save")) => ~training

C14_Witness ==
    /\ call = "train" /\ kelpie /\ valid_samples /\ evaluate_every = 1
    /\ e = 2 /\ pc = "while" /\ Len(batches) = 1 /\ training
    /\ Count("evaluator") = 1 /\ CountIn("step", 2) = 1

\* C15: the Kelpie epoch is the base epoch plus update_embeddings: every
\* step of epoch(), of either class, is a step of the base epoch (lines
\* 87-102) on the trace with the update_embeddings calls erased: the same
\* shuffle and switch to training mode, the same batch_start values, the
\* same extract_batch and step_on_batch calls in the same order; for the
\* base class the erasure changes nothing.
Erase(t) == SelectSeq(t, LAMBDA ev : ev[1] # "update_embeddings")

C15_BaseEnter ==
    /\ pc \in {"start", "for"}
    /\ pc' = "while"
    /\ training_samples' \in Shuffles(training_samples)
    /\ training'
    /\ batch_start' = 0
    /\ batches' = << >>
    /\ Erase(trace') = Erase(trace) \o <<Ev("shuffle", e'), Ev("train", e')>>
    /\ params' = params

C15_BaseIteration ==
    /\ pc = "while"
    /\ batch_start < Len(training_samples)
    /\ \E outcome \in Outcomes :
          LET stepped == step_on_batch(outcome, e, params)
          IN  /\ Erase(trace') = Erase(trace) \o <<Ev("extract_batch", e)>>
                                               \o stepped.calls
              /\ params' = stepped.params
              /\ batch_start' = IF outcome = "ok"
                                THEN batch_start + batch_size
                                ELSE batch_start
              /\ pc' = IF outcome = "ok" THEN "while" ELSE "aborted"
    /\ batches' = Append(batches, extract_batch(training_samples,
                                                batch_start, batch_size))
    /\ UNCHANGED <<training_samples, e, training, checkpoint>>

C15_BaseExit ==
    /\ pc = "while"
    /\ batch_start >= Len(training_samples)
    /\ pc' \in {"done", "validate"}
    /\ Erase(trace') = Erase(trace)
    /\ UNCHANGED <<training_samples, e, batch_start, batches, training,
                   params, checkpoint>>

C15_KelpieRefinesBase ==
    [][(call \in {"train", "epoch"} /\ (pc = "while" \/ pc' = "while")) =>
          /\ C15_BaseEnter \/ C15_BaseIteration \/ C15_BaseExit
          /\ ~kelpie => Erase(trace') = trace']_vars

C15_Witness ==
    /\ call = "epoch" /\ kelpie /\ pc = "done" /\ batch_size = 2
    /\ Len(training_samples) = 3 /\ Count("update_embeddings") = 2
    /\ Erase(trace) =
         <<Ev("shuffle", 0), Ev("train", 0), Ev("extract_batch", 0)>>
         \o step_on_batch("ok", 0, 0).calls \o <<Ev("extract_batch", 0)>>
         \o step_on_batch("ok", 0, 1).calls

\* C17: on a non-empty set epoch() ends if and only if batch_size >= 1.
\* With batch_size >= 1 batch_start grows in every iteration, the loop is
\* left after at most ceil(n / batch_size) iterations and the call ends,
\* train() after EPOCHS epochs; with batch_size <= 0 batch_start never gets
\* above 0, the loop condition holds whenever it is tested and the call
\* never returns.
C17_LoopBounded ==
    (call \in {"train", "epoch"} /\ batch_size >= 1) =>
        /\ Len(batches) <= Ceil(Len(training_samples), batch_size)
        /\ e <= epochs
        /\ (call = "train" /\ pc = "done") =>
              (e = epochs /\ Count("shuffle") = epochs)

C17_LoopEndless ==
    (call \in {"train", "epoch"} /\ batch_size <= 0
       /\ (call = "train" => epochs >= 1)) =>
        /\ pc # "done"
        /\ e <= 1
        /\ pc = "while" =>
              /\ batch_start = Len(batches) * batch_size
              /\ batch_start < Len(training_samples)

C17_TerminatesIffPositive ==
    /\ []C17_LoopBounded
    /\ []C17_LoopEndless
    /\ [][(call \in {"train", "epoch"} /\ batch_size >= 1
             /\ pc = "while" /\ pc' = "while")
           => batch_start' > batch_start]_vars
    /\ [][(call \in {"train", "epoch"} /\ batch_size <= 0)
           => batch_start' <= batch_start]_vars
    /\ []((call \in {"train", "epoch"} /\ batch_size >= 1)
           => <>(pc \in {"done", "aborted"}))

C17_Witness ==
    /\ call = "epoch" /\ batch_size = -1 /\ pc = "while"
    /\ Len(training_samples) = 3 /\ Len(batches) = 4 /\ batch_start = -4
    /\ Len(batches[1]) = 2 /\ Len(batches[2]) = 0

C17_WitnessEnds ==
    /\ call = "train" /\ batch_size = 3 /\ pc = "done" /\ epochs = 3
    /\ Len(training_samples) = 4 /\ Count("step") = 6

\* C18: in a train() run of the Kelpie variant, at every Evaluator call and
\* every checkpoint write the number of update_embeddings calls made so far
\* equals the number of optimizer updates made so far, so what is evaluated
\* and written is the model whose embeddings hold the last update.
CountUpTo(op, i) == Cardinality({j \in 1..i : Op(j) = op})

C18_SyncedAtEvaluation ==
    (kelpie /\ call = "train") =>
        /\ \A i \in DOMAIN trace :
              Op(i) \in {"evaluator", "save"} =>
                  CountUpTo("update_embeddings", i) = CountUpTo("step", i)
        /\ pc \in {"validate", "for", "done"} => embeddings = params
        /\ (LastOp = "save" /\ pc \in {"for", "done"}) => checkpoint = embeddings

C18_Witness ==
    /\ kelpie /\ call = "train" /\ pc = "done" /\ epochs = 2
    /\ Count("evaluator") = 2 /\ Count("save") = 3
    /\ Count("update_embeddings") = 4 /\ Count("step") = 4
    /\ checkpoint = 4

\* C19: train() leaves the caller's train_samples array as it was, rows and
\* row order, however many epochs run: the shuffles reorder the stacked copy
\* only; epoch() called directly reorders the very array it is given, which
\* keeps its rows and can come out in any order.
C19_CallerArray ==
    /\ call = "train" =>
          /\ caller_samples = train_samples
          /\ caller_samples = SubSeq(AllSamples, 1, Len(train_samples))
    /\ (call = "epoch" /\ pc # "start") =>
          /\ caller_samples = training_samples
          /\ SameRows(caller_samples, SubSeq(AllSamples, 1, Len(caller_samples)))

C19_Witness ==
    /\ call = "train" /\ pc = "done" /\ e = 3
    /\ Len(train_samples) = 2
    /\ training_samples # vstack(train_samples, invert_samples(train_samples))
    /\ caller_samples = train_samples

C19_WitnessEpoch ==
    /\ call = "epoch" /\ pc = "done"
    /\ Len(caller_samples) = 3
    /\ caller_samples = <<AllSamples[3], AllSamples[1], AllSamples[2]>>

\* C20: when train() returns after EPOCHS >= 1 epochs the model is in
\* evaluation mode if and only if validation ran at the last epoch
\* (evaluate_every > 0, valid_samples given, EPOCHS a multiple of
\* evaluate_every) and in training mode otherwise; no mode switch comes
\* between the last epoch's validation test and the final checkpoint write,
\* so that write is made in the same mode.
ModeSwitches == SelectSeq(trace, LAMBDA ev : ev[1] \in {"train", "eval"})

LastMode ==
    IF ModeSwitches = << >> THEN "train"
    ELSE ModeSwitches[Len(ModeSwitches)][1]

C20_ModeAtReturn ==
    (call = "train" /\ pc = "done" /\ epochs >= 1) =>
        LET ran == /\ evaluate_every > 0
                   /\ valid_samples
                   /\ epochs % evaluate_every = 0
        IN  /\ training <=> ~ran
            /\ ran <=> CountIn("evaluator", epochs) = 1
            /\ LastMode = IF ran THEN "eval" ELSE "train"
            /\ save_path =>
                  /\ LastOp = "save"
                  /\ Len(trace) > 1
                  /\ Op(Len(trace) - 1) \in
                        IF ran THEN {"save", "evaluator"}
                        ELSE {"step", "update_embeddings"}

C20_Witness ==
    /\ call = "train" /\ pc = "done" /\ epochs = 2 /\ evaluate_every = 2
    /\ valid_samples /\ save_path /\ ~training
    /\ Count("evaluator") = 1 /\ Count("save") = 2 /\ LastMode = "eval"

C20_WitnessTraining ==
    /\ call = "train" /\ pc = "done" /\ epochs = 3 /\ evaluate_every = 2
    /\ valid_samples /\ save_path /\ training
    /\ Count("evaluator") = 1 /\ Count("save") = 2 /\ LastMode = "train"

====
